---------------------------- MODULE Spec2Model ----------------------------
(* Model of src/app.py: a Streamlit script that resolves an OAI-PMH        *)
(* repository identity, harvests records into a table (harvest_dynamic),   *)
(* enriches the table with normalised columns and filters it.              *)
(*                                                                         *)
(* Python values are modelled as follows.                                  *)
(*   str          a sequence of one-character strings, <<"a", " ">>        *)
(*   None / NaN   None == <<>>, and a present value x is Some(x) == <<x>>  *)
(*   dict         a function whose DOMAIN is the set of keys               *)
(*   DataFrame    a sequence of rows; a row is a dict that holds only the  *)
(*                keys the record supplied (a missing key is a NaN cell)   *)
EXTENDS Integers, Sequences, FiniteSets, TLC

VARIABLES
    oai_url,            \* value of the "URL del OAI Base" text input
    repo_info,          \* st.session_state.repo_info
    harvested_df,       \* st.session_state.harvested_df
    config_shown,       \* the last run rendered "2. Configuración de Cosecha"
    high_vol_mode,      \* checkbox "Habilitar Cosecha Masiva"
    security_check,     \* text input "Ingrese Repository Identifier"
    num_limit,          \* number input "Cantidad de registros"
    safe_limit,         \* slider "Límite seguro"
    reg_limit,          \* slider "Límite de registros"
    cache,              \* st.cache_data store of harvest_dynamic
    msgs,               \* st.error / st.warning / st.success of the last run
    run,                \* what the last script run did
    record,             \* the record handed to the row flattening
    row,                \* the flattened row
    sel_years, sel_types, sel_langs, sel_formats,   \* the four multiselects
    filter_empty_desc, filter_no_rights,            \* the two checkboxes
    view                \* what the dashboard computed in the last run

vars == <<oai_url, repo_info, harvested_df, config_shown, high_vol_mode,
          security_check, num_limit, safe_limit, reg_limit, cache, msgs, run,
          record, row, sel_years, sel_types, sel_langs, sel_formats,
          filter_empty_desc, filter_no_rights, view>>

uiVars == <<oai_url, repo_info, harvested_df, config_shown, high_vol_mode,
            security_check, num_limit, safe_limit, reg_limit>>
flatVars == <<record, row>>
dashVars == <<sel_years, sel_types, sel_langs, sel_formats,
              filter_empty_desc, filter_no_rights, view>>

----------------------------------------------------------------------------
(* Bounds of the model *)

MaxRecs == 3          \* most records a remote source holds
MaxLimit == 2         \* largest limit of a direct harvest_dynamic call
MaxCache == 2         \* most entries the cache holds in the UI model
MaxVals == 2          \* longest value sequence of a metadata field
MaxRows == 2          \* most rows of a Sample shown by the dashboard

(* Program constants *)

DefaultLimit == 500   \* limit = 500; the sliders' default value
SliderMax == 5000
NumberMin == 5000     \* also the number input's default value
NumberMax == 50000

----------------------------------------------------------------------------
(* Python helpers *)

None == <<>>
Some(x) == <<x>>
Min(a, b) == IF a < b THEN a ELSE b

IsSpace(c) == c = " "

RECURSIVE lstrip(_)
lstrip(s) == IF s # <<>> /\ IsSpace(Head(s)) THEN lstrip(Tail(s)) ELSE s

RECURSIVE rstrip(_)
rstrip(s) ==
    IF s # <<>> /\ IsSpace(s[Len(s)]) THEN rstrip(SubSeq(s, 1, Len(s) - 1)) ELSE s

\* str.strip()
strip(s) == rstrip(lstrip(s))

\* dict assignment d[k] = v
Put(d, k, v) == (k :> v) @@ d

\* "; ".join(xs)
RECURSIVE join(_)
join(xs) ==
    IF Len(xs) = 0 THEN <<>>
    ELSE IF Len(xs) = 1 THEN xs[1]
    ELSE xs[1] \o <<";", " ">> \o join(Tail(xs))

\* [str(v) for v in values if v is not None]
RECURSIVE clean_values(_)
clean_values(values) ==
    IF values = <<>> THEN <<>>
    ELSE IF Head(values) = None THEN clean_values(Tail(values))
    ELSE <<Head(values)[1]>> \o clean_values(Tail(values))

----------------------------------------------------------------------------
(* harvest_dynamic: the flattening of one record, lines 134-149 *)

\* for key, values in record.metadata.items(): ... row[key] = "; ".join(...)
RECURSIVE put_metadata(_, _, _)
put_metadata(r, metadata, keys) ==
    IF keys = {} THEN r
    ELSE LET key == CHOOSE k \in keys : TRUE
             values == metadata[key]
             cv == clean_values(values)
             r1 == IF values # <<>> /\ cv # <<>> THEN Put(r, key, join(cv)) ELSE r
         IN  put_metadata(r1, metadata, keys \ {key})

\* record.metadata.get(field, [])
metadata_get(metadata, field) ==
    IF field \in DOMAIN metadata THEN metadata[field] ELSE <<>>

flatten(rec) ==
    LET row0 == Put(Put(<<>>, "identifier", rec.header.identifier),
                    "datestamp", rec.header.datestamp)
        row1 == put_metadata(row0, rec.metadata, DOMAIN rec.metadata)
        row2 == Put(row1, "count_creators", Len(metadata_get(rec.metadata, "creator")))
    IN  Put(row2, "count_subjects", Len(metadata_get(rec.metadata, "subject")))

----------------------------------------------------------------------------
(* harvest_dynamic: the loop and the cache, lines 115-158 *)

ErrHarvest == "error: Error en la conexión o cosecha"
ErrNoRecords == "error: La cosecha no devolvió registros."
ErrConnect == "error: No se pudo conectar."
WarnUrl == "warning: Ingrese una URL válida."
OkConnect == "success: ¡Conectado!"

NoFail == -1

\* A remote source: the records the iterator yields, in order, and failAt, the
\* number of records it yields before Sickle raises (NoFail: it never raises).

\* Faulty variant for C3: the except branch returns the rows gathered so far.
on_exception_partial(data) == [df |-> data, msgs |-> {ErrHarvest}]
\* except Exception: st.error(...); return pd.DataFrame()
on_exception(data) == [df |-> <<>>, msgs |-> {ErrHarvest}]

\* return pd.DataFrame(data)
on_complete(data) == [df |-> data, msgs |-> {}]

\* Faulty variant for C2: a loop that breaks one record late.
RECURSIVE harvest_loop_late_break(_, _, _, _)
harvest_loop_late_break(src, limit, i, data) ==
    IF src.failAt = i THEN on_exception(data)
    ELSE IF i >= Len(src.recs) THEN on_complete(data)
    ELSE IF i > limit THEN on_complete(data)
    ELSE harvest_loop_late_break(src, limit, i + 1,
                                 Append(data, flatten(src.recs[i + 1])))

\* for i, record in enumerate(iterator): if i >= limit: break ...
RECURSIVE harvest_loop(_, _, _, _)
harvest_loop(src, limit, i, data) ==
    IF src.failAt = i THEN on_exception(data)
    ELSE IF i >= Len(src.recs) THEN on_complete(data)
    ELSE IF i >= limit THEN on_complete(data)
    ELSE harvest_loop(src, limit, i + 1, Append(data, flatten(src.recs[i + 1])))

\* @st.cache_data: a call with arguments seen before returns the stored return
\* value and replays the stored st.error; the body does not run.
harvest_dynamic(cch, url, limit, src) ==
    LET key == <<url, limit>>
    IN  IF key \in DOMAIN cch
        THEN [ret |-> cch[key], cache |-> cch, hit |-> TRUE]
        ELSE LET r == harvest_loop(src, limit, 0, <<>>)
             IN  [ret |-> r, cache |-> Put(cch, key, r), hit |-> FALSE]

----------------------------------------------------------------------------
(* The remote repositories *)

Urls == {"", "u1", "u2"}

\* The repositoryIdentifier values the server behind a URL may answer with.
RemoteIds(url) ==
    IF url = "u1" THEN {Some(<<"a">>)} ELSE {Some(<<"A">>)}

\* What sickle.Identify() does for a URL: it raises, or answers.
Responses(url) ==
    {[raised |-> TRUE]} \cup
    {[raised |-> FALSE, baseURL |-> url, repositoryIdentifier |-> id] :
        id \in RemoteIds(url)}

\* The i-th record of a source.
PoolRec(i) ==
    LET hdr == [identifier |-> <<"h", IF i % 2 = 1 THEN "1" ELSE "2">>,
                datestamp |-> <<"d">>]
    IN  IF i % 3 = 1 THEN [header |-> hdr,
                           metadata |-> ("creator" :> <<Some(<<"x">>), Some(<<"y">>)>>)]
        ELSE IF i % 3 = 2 THEN [header |-> hdr,
                                metadata |-> ("identifier" :> <<Some(<<"y">>)>>) @@
                                             ("creator" :> <<None>>)]
        ELSE [header |-> hdr, metadata |-> <<>>]

SourcesUpTo(n) ==
    {[recs |-> [i \in 1..k |-> PoolRec(i)], failAt |-> f] :
        k \in 0..n, f \in {NoFail} \cup 0..n} 

Sources == {s \in SourcesUpTo(MaxRecs) : s.failAt <= Len(s.recs)}

\* The sources the UI model harvests from.
UISources ==
    {s \in Sources : \/ Len(s.recs) = 0 /\ s.failAt = NoFail
                     \/ Len(s.recs) = 2 /\ s.failAt \in {NoFail, 0, 1}}

\* Stand-ins for the remote of a run that makes no remote call.
NoResponse == [raised |-> TRUE]
NoSource == [recs |-> <<>>, failAt |-> NoFail]

----------------------------------------------------------------------------
(* get_repo_info, lines 23-34 *)

get_repo_info(resp) ==
    IF resp.raised THEN None
    ELSE Some([BaseURL |-> resp.baseURL, RepositoryID |-> resp.repositoryIdentifier])

----------------------------------------------------------------------------
(* The limit configuration, lines 174-190 *)

\* security_check.strip() == repo_id; a str never equals None
id_matches(ri, sc) ==
    LET repo_id == ri[1].RepositoryID
    IN  repo_id # None /\ strip(sc) = repo_id[1]

\* Faulty variant for C1: the number input needs no identifier.
limit_config_nogate(ri, hv, sc, nl, sl, rl) ==
    IF ri = None
    THEN [limit |-> DefaultLimit, shown |-> FALSE, text |-> FALSE, widget |-> "none"]
    ELSE IF hv
         THEN [limit |-> nl, shown |-> TRUE, text |-> TRUE, widget |-> "number"]
         ELSE [limit |-> rl, shown |-> TRUE, text |-> FALSE, widget |-> "regular"]

\* Which widgets the run renders and the limit it computes.
limit_config(ri, hv, sc, nl, sl, rl) ==
    IF ri = None
    THEN [limit |-> DefaultLimit, shown |-> FALSE, text |-> FALSE, widget |-> "none"]
    ELSE IF hv
         THEN IF id_matches(ri, sc)
              THEN [limit |-> nl, shown |-> TRUE, text |-> TRUE, widget |-> "number"]
              ELSE [limit |-> sl, shown |-> TRUE, text |-> TRUE, widget |-> "safe"]
         ELSE [limit |-> rl, shown |-> TRUE, text |-> FALSE, widget |-> "regular"]

----------------------------------------------------------------------------
(* One run of the script, lines 160-211.  click is the button that caused   *)
(* the run ("none" for a widget change); url, hv, sc, nl, sl, rl are the    *)
(* widget values the run reads; resp and src are what the remote answers    *)
(* if the run calls it.  A widget the run does not render loses its value   *)
(* (Streamlit discards the state of a widget that is not rendered).         *)

NoCall == None

\* Faulty variant for C5: the handler stores whatever the harvest returned.
store_sample_always(hdf, df_raw) == Some(df_raw)

\* if not df_raw.empty: st.session_state.harvested_df = df_raw, lines 202-203
store_sample(hdf, df_raw) == IF df_raw # <<>> THEN Some(df_raw) ELSE hdf

ScriptRun(click, url, hv, sc, nl, sl, rl, resp, src) ==
    LET \* "Verificar Conexión", lines 164-172
        verify == click = "verify" /\ url # ""
        info == get_repo_info(resp)
        ri1 == IF verify /\ info # None THEN info ELSE repo_info
        m1 == IF verify THEN (IF info # None THEN {OkConnect} ELSE {ErrConnect})
              ELSE {}
        \* lines 174-190
        cfg == limit_config(ri1, hv, sc, nl, sl, rl)
        \* "Iniciar Auditoría", lines 193-205
        start == click = "start"
        resolve == start /\ url # "" /\ ri1 = None
        ri2 == IF resolve THEN info ELSE ri1
        invoke == start /\ url # "" /\ ri2 # None
        h == harvest_dynamic(cache, url, cfg.limit, src)
        m2 == IF start /\ url = "" THEN {WarnUrl}
              ELSE IF invoke
                   THEN h.ret.msgs \cup (IF h.ret.df = <<>> THEN {ErrNoRecords} ELSE {})
                   ELSE {}
    IN  /\ invoke /\ ~h.hit => Cardinality(DOMAIN cache) < MaxCache
        /\ oai_url' = url
        /\ repo_info' = ri2
        /\ harvested_df' = IF invoke THEN store_sample(harvested_df, h.ret.df)
                           ELSE harvested_df
        /\ config_shown' = cfg.shown
        /\ high_vol_mode' = (cfg.shown /\ hv)
        /\ security_check' = IF cfg.text THEN sc ELSE <<>>
        /\ num_limit' = IF cfg.widget = "number" THEN nl ELSE NumberMin
        /\ safe_limit' = IF cfg.widget = "safe" THEN sl ELSE DefaultLimit
        /\ reg_limit' = IF cfg.widget = "regular" THEN rl ELSE DefaultLimit
        /\ cache' = IF invoke THEN h.cache ELSE cache
        /\ msgs' = m1 \cup m2
        /\ run' = [identify |-> IF verify \/ resolve
                                THEN (IF info = None THEN "failed" ELSE "ok")
                                ELSE "none",
                   call |-> IF invoke
                            THEN Some([url |-> url, limit |-> cfg.limit,
                                       hit |-> h.hit, src |-> src,
                                       df |-> h.ret.df, msgs |-> h.ret.msgs])
                            ELSE NoCall]
        /\ UNCHANGED <<flatVars, dashVars>>

\* The texts an operator types: nothing, an identifier as the server spells
\* it, in the other case, and with a space before or after it.
Texts == {<<>>, <<"a">>, <<"A">>, <<" ", "a">>, <<"a", " ">>}

SliderChoices == {DefaultLimit, SliderMax}
NumberChoices == {NumberMin, NumberMax}

\* The widgets that the last run rendered.
rendered == limit_config(IF config_shown THEN repo_info ELSE None, high_vol_mode,
                         security_check, num_limit, safe_limit, reg_limit)

EditUrl ==
    \E u \in Urls \ {oai_url} :
        ScriptRun("none", u, high_vol_mode, security_check,
                  num_limit, safe_limit, reg_limit, NoResponse, NoSource)

\* Any other interaction that reruns the script (a dashboard widget, "Rerun").
Rerun ==
    ScriptRun("none", oai_url, high_vol_mode, security_check,
              num_limit, safe_limit, reg_limit, NoResponse, NoSource)

ClickVerify ==
    \E resp \in (IF oai_url # "" THEN Responses(oai_url) ELSE {NoResponse}) :
        ScriptRun("verify", oai_url, high_vol_mode, security_check,
                  num_limit, safe_limit, reg_limit, resp, NoSource)

ToggleHighVol ==
    /\ rendered.shown
    /\ ScriptRun("none", oai_url, ~high_vol_mode, security_check,
                 num_limit, safe_limit, reg_limit, NoResponse, NoSource)

EnterText ==
    /\ rendered.text
    /\ \E t \in Texts \ {security_check} :
          ScriptRun("none", oai_url, high_vol_mode, t,
                    num_limit, safe_limit, reg_limit, NoResponse, NoSource)

SetNumber ==
    /\ rendered.widget = "number"
    /\ \E v \in NumberChoices \ {num_limit} :
          ScriptRun("none", oai_url, high_vol_mode, security_check,
                    v, safe_limit, reg_limit, NoResponse, NoSource)

SetSafeSlider ==
    /\ rendered.widget = "safe"
    /\ \E v \in SliderChoices \ {safe_limit} :
          ScriptRun("none", oai_url, high_vol_mode, security_check,
                    num_limit, v, reg_limit, NoResponse, NoSource)

SetSlider ==
    /\ rendered.widget = "regular"
    /\ \E v \in SliderChoices \ {reg_limit} :
          ScriptRun("none", oai_url, high_vol_mode, security_check,
                    num_limit, safe_limit, v, NoResponse, NoSource)

\* The limit a run caused by "Iniciar Auditoría" computes at lines 174-190.
start_limit == limit_config(repo_info, high_vol_mode, security_check,
                            num_limit, safe_limit, reg_limit).limit

ClickStart ==
    \E resp \in (IF oai_url # "" /\ repo_info = None
                 THEN Responses(oai_url) ELSE {NoResponse}),
       src \in (IF oai_url # "" /\ <<oai_url, start_limit>> \notin DOMAIN cache
               THEN UISources ELSE {NoSource}) :
        ScriptRun("start", oai_url, high_vol_mode, security_check,
                  num_limit, safe_limit, reg_limit, resp, src)

NoRun == [identify |-> "none", call |-> NoCall]

FlatIdle == record = None /\ row = None
DashIdle ==
    /\ sel_years = {} /\ sel_types = {} /\ sel_langs = {} /\ sel_formats = {}
    /\ filter_empty_desc = FALSE /\ filter_no_rights = FALSE
    /\ view = None

\* Lines 15-19 and the widgets' default values.
Init ==
    /\ oai_url = ""
    /\ repo_info = None
    /\ harvested_df = None
    /\ config_shown = FALSE
    /\ high_vol_mode = FALSE
    /\ security_check = <<>>
    /\ num_limit = NumberMin
    /\ safe_limit = DefaultLimit
    /\ reg_limit = DefaultLimit
    /\ cache = <<>>
    /\ msgs = {}
    /\ run = NoRun
    /\ FlatIdle
    /\ DashIdle

Next ==
    \/ EditUrl
    \/ Rerun
    \/ ClickVerify
    \/ ToggleHighVol
    \/ EnterText
    \/ SetNumber
    \/ SetSafeSlider
    \/ SetSlider
    \/ ClickStart

Spec == Init /\ [][Next]_vars

----------------------------------------------------------------------------
(* Direct calls of harvest_dynamic(url, limit), for every limit from 1 to   *)
(* MaxLimit and every source of at most MaxRecs records.                    *)

Invoke ==
    \E limit \in 1..MaxLimit, src \in Sources :
        LET h == harvest_dynamic(cache, "u1", limit, src)
        IN  /\ cache' = h.cache
            /\ msgs' = h.ret.msgs
            /\ run' = [identify |-> "none",
                       call |-> Some([url |-> "u1", limit |-> limit,
                                      hit |-> h.hit, src |-> src,
                                      df |-> h.ret.df, msgs |-> h.ret.msgs])]
            /\ UNCHANGED <<uiVars, flatVars, dashVars>>

NextHarvest == Invoke

SpecHarvest == Init /\ [][NextHarvest]_vars

----------------------------------------------------------------------------
(* The row flattening of lines 134-149 applied to one record, for every     *)
(* record whose metadata holds some of FieldNames, each with at most        *)
(* MaxVals values.                                                          *)

FieldNames == {"identifier", "datestamp", "creator", "subject"}
Values == {None, Some(<<"x">>), Some(<<"y">>)}
ValueSeqs == UNION {[1..n -> Values] : n \in 0..MaxVals}
Metadatas == UNION {[fs -> ValueSeqs] : fs \in SUBSET FieldNames}
Records ==
    {[header |-> [identifier |-> <<"h">>, datestamp |-> <<"d">>], metadata |-> m] :
        m \in Metadatas}

InitFlatten ==
    /\ oai_url = ""
    /\ repo_info = None
    /\ harvested_df = None
    /\ config_shown = FALSE
    /\ high_vol_mode = FALSE
    /\ security_check = <<>>
    /\ num_limit = NumberMin
    /\ safe_limit = DefaultLimit
    /\ reg_limit = DefaultLimit
    /\ cache = <<>>
    /\ msgs = {}
    /\ run = NoRun
    /\ record \in {Some(r) : r \in Records}
    /\ row = None
    /\ DashIdle

Flatten ==
    /\ row = None
    /\ row' = Some(flatten(record[1]))
    /\ UNCHANGED <<uiVars, cache, msgs, run, record, dashVars>>

NextFlatten == Flatten

SpecFlatten == InitFlatten /\ [][NextFlatten]_vars

----------------------------------------------------------------------------
(* The field normalisers, lines 36-94 and 240.  A cell is None (NaN: the   *)
(* record lacked the field) or Some(string).                               *)

SinDato == <<"[", " ", "S", "I", "N", " ", "D", "A", "T", "O", " ", "]">>
NanText == <<"n", "a", "n">>

UpperCase == <<"A", "B", "C", "D", "E", "F", "G", "H", "I", "J", "K", "L", "M", "N", "O", "P", "Q", "R", "S", "T", "U", "V", "W", "X", "Y", "Z">>
LowerCase == <<"a", "b", "c", "d", "e", "f", "g", "h", "i", "j", "k", "l", "m", "n", "o", "p", "q", "r", "s", "t", "u", "v", "w", "x", "y", "z">>
Digits == {"0", "1", "2", "3", "4", "5", "6", "7", "8", "9"}

IsUpper(c) == \E i \in 1..26 : UpperCase[i] = c
IsLower(c) == \E i \in 1..26 : LowerCase[i] = c
IsLetter(c) == IsUpper(c) \/ IsLower(c)
\* \w of the regular expression
IsWordChar(c) == IsLetter(c) \/ c \in Digits \/ c = "_"

lower_char(c) == IF IsUpper(c) THEN LowerCase[CHOOSE i \in 1..26 : UpperCase[i] = c] ELSE c
upper_char(c) == IF IsLower(c) THEN UpperCase[CHOOSE i \in 1..26 : LowerCase[i] = c] ELSE c

\* str.lower()
lower(t) == [i \in 1..Len(t) |-> lower_char(t[i])]

\* str.title()
title(t) ==
    [i \in 1..Len(t) |->
        IF i = 1 \/ ~IsLetter(t[i - 1]) THEN upper_char(t[i]) ELSE lower_char(t[i])]

\* p in t
Contains(t, p) ==
    \E i \in 1..(Len(t) - Len(p) + 1) : SubSeq(t, i, i + Len(p) - 1) = p

\* t.startswith(p)
startswith(t, p) == Len(t) >= Len(p) /\ SubSeq(t, 1, Len(p)) = p

\* t.split(';')
RECURSIVE split(_)
split(t) ==
    IF \A i \in 1..Len(t) : t[i] # ";" THEN <<t>>
    ELSE LET k == CHOOSE i \in 1..Len(t) :
                      t[i] = ";" /\ \A j \in 1..(i - 1) : t[j] # ";"
         IN  <<SubSeq(t, 1, k - 1)>> \o split(SubSeq(t, k + 1, Len(t)))

\* not x or pd.isna(x)
is_blank(x) == x = None \/ x[1] = <<>>

\* str(x): NaN prints as "nan"
python_str(x) == IF x = None THEN NanText ELSE x[1]

\* bool(x): NaN is a non-zero float, an empty string is false
truthy(x) == x = None \/ x[1] # <<>>

detect_clean_format(format_list_str) ==
    IF is_blank(format_list_str) THEN SinDato
    ELSE LET text == lower(python_str(format_list_str))
         IN  IF Contains(text, <<"p", "d", "f">>) \/ Contains(text, <<"a", "p", "p", "l", "i", "c", "a", "t", "i", "o", "n", "/", "p", "d", "f">>)
             THEN <<"P", "D", "F">>
             ELSE IF Contains(text, <<"x", "m", "l">>) THEN <<"X", "M", "L">>
             ELSE IF \/ Contains(text, <<"j", "p", "g">>) \/ Contains(text, <<"j", "p", "e", "g">>)
                     \/ Contains(text, <<"p", "n", "g">>) \/ Contains(text, <<"g", "i", "f">>)
                     \/ Contains(text, <<"i", "m", "a", "g", "e">>)
             THEN <<"I", "m", "a", "g", "e", "n">>
             ELSE IF Contains(text, <<"w", "o", "r", "d">>) \/ Contains(text, <<"d", "o", "c">>) \/ Contains(text, <<"d", "o", "c", "x">>)
             THEN <<"W", "o", "r", "d">>
             ELSE IF Contains(text, <<"e", "x", "c", "e", "l">>) \/ Contains(text, <<"x", "l", "s">>)
             THEN <<"E", "x", "c", "e", "l">>
             ELSE IF Contains(text, <<"z", "i", "p">>) \/ Contains(text, <<"r", "a", "r">>)
             THEN <<"A", "r", "c", "h", "i", "v", "o", " ", "C", "o", "m", "p", "r", "i", "m", "i", "d", "o">>
             ELSE IF Contains(text, <<"m", "p", "4">>) \/ Contains(text, <<"v", "i", "d", "e", "o">>)
             THEN <<"V", "i", "d", "e", "o">>
             ELSE IF Contains(text, <<"m", "p", "3">>) \/ Contains(text, <<"a", "u", "d", "i", "o">>)
             THEN <<"A", "u", "d", "i", "o">>
             ELSE <<"O", "t", "r", "o", "s", "/", "D", "e", "s", "c", "o", "n", "o", "c", "i", "d", "o">>

\* r'\b(?:19|20)\d{2}\b' matches at position i of text
year_at(text, i) ==
    /\ i + 3 <= Len(text)
    /\ SubSeq(text, i, i + 1) \in {<<"1", "9">>, <<"2", "0">>}
    /\ text[i + 2] \in Digits /\ text[i + 3] \in Digits
    /\ i = 1 \/ ~IsWordChar(text[i - 1])
    /\ i + 3 = Len(text) \/ ~IsWordChar(text[i + 4])

extract_year_func(d) ==
    IF is_blank(d) THEN SinDato
    ELSE LET text == python_str(d)
             matches == {i \in 1..Len(text) : year_at(text, i)}
         IN  IF matches # {}
             THEN LET first == CHOOSE i \in matches : \A j \in matches : i <= j
                  IN  SubSeq(text, first, first + 3)
             ELSE SinDato

\* the items of valid_items, in order
RECURSIVE valid_items(_)
valid_items(items) ==
    IF items = <<>> THEN <<>>
    ELSE LET i == Head(items)
         IN  IF \/ startswith(i, <<"i", "n", "f", "o", ":", "e", "u", "-", "r", "e", "p", "o">>)
                \/ startswith(i, <<"h", "t", "t", "p">>)
                \/ startswith(i, <<"p", "u", "e", "r", "l">>)
                \/ Len(i) < 2
             THEN valid_items(Tail(items))
             ELSE <<title(i)>> \o valid_items(Tail(items))

clean_split_type(type_str) ==
    IF is_blank(type_str) THEN None
    ELSE LET parts == split(python_str(type_str))
             items == [k \in 1..Len(parts) |-> strip(parts[k])]
             valid == valid_items(items)
         IN  IF valid = <<>> THEN None ELSE Some(valid[1])

\* Series.fillna(value)
fillna(x, value) == IF x = None THEN value ELSE x[1]

\* lambda x: str(x).split(';')[0] if x else "[ SIN DATO ]", line 240
primary_lang_func(x) ==
    IF truthy(x) THEN split(python_str(x))[1] ELSE SinDato

----------------------------------------------------------------------------
(* The dashboard, lines 207-302: enrichment, then the filters *)

\* df[col] of one row: NaN when the record lacked the field
Cell(r, col) == IF col \in DOMAIN r THEN Some(r[col]) ELSE None

\* the columns of pd.DataFrame(data): the union of the rows' keys
Columns(rows) == UNION {DOMAIN rows[i] : i \in 1..Len(rows)}

\* lines 215-242: one row of df_full
enrich_row(columns, r) ==
    LET r1 == IF "year_extracted" \in columns THEN r
              ELSE Put(r, "year_extracted",
                       IF "date" \in columns THEN extract_year_func(Cell(r, "date"))
                       ELSE SinDato)
        r2 == IF "clean_format" \in columns THEN r1
              ELSE Put(r1, "clean_format",
                       IF "format" \in columns THEN detect_clean_format(Cell(r, "format"))
                       ELSE SinDato)
        r3 == IF "primary_type" \in columns THEN r2
              ELSE Put(r2, "primary_type",
                       IF "type" \in columns
                       THEN fillna(clean_split_type(Cell(r, "type")), SinDato)
                       ELSE SinDato)
    IN  IF "primary_lang" \in columns THEN r3
        ELSE Put(r3, "primary_lang",
                 IF "language" \in columns THEN primary_lang_func(Cell(r, "language"))
                 ELSE SinDato)

EnrichedColumns == {"year_extracted", "clean_format", "primary_type", "primary_lang"}

\* lines 211-246: df_full; the rights column exists even if no record had it
enrich(rows) ==
    [columns |-> Columns(rows) \cup EnrichedColumns \cup {"rights"},
     rows |-> [i \in 1..Len(rows) |-> enrich_row(Columns(rows), rows[i])]]

\* Faulty variant for C6: a facet whose empty selection matches nothing.
filter_facet_strict(rows, col, sel) == SelectSeq(rows, LAMBDA r : r[col] \in sel)

\* if sel: df = df[df[col].isin(sel)], lines 289-296
filter_facet(rows, col, sel) ==
    IF sel # {} THEN SelectSeq(rows, LAMBDA r : r[col] \in sel) ELSE rows

\* df[col].isnull() | (df[col].astype(str).str.strip() == "")
is_missing(r, col) == Cell(r, col) = None \/ strip(python_str(Cell(r, col))) = <<>>

\* lines 285-302; df[col] raises KeyError when the frame has no such column
apply_filters(df_full, sy, st, sl, sf, fd, fr) ==
    LET d1 == filter_facet(df_full.rows, "year_extracted", sy)
        d2 == filter_facet(d1, "primary_type", st)
        d3 == filter_facet(d2, "primary_lang", sl)
        d4 == filter_facet(d3, "clean_format", sf)
        d5 == IF fd THEN SelectSeq(d4, LAMBDA r : is_missing(r, "description")) ELSE d4
        d6 == IF fr THEN SelectSeq(d5, LAMBDA r : is_missing(r, "rights")) ELSE d5
    IN  IF fd /\ "description" \notin df_full.columns THEN [raised |-> TRUE, rows |-> <<>>]
        ELSE IF fr /\ "rights" \notin df_full.columns THEN [raised |-> TRUE, rows |-> <<>>]
        ELSE [raised |-> FALSE, rows |-> d6]

\* sorted(list(df_full[col].unique())): the options of a multiselect
available(df_full, col) == {df_full.rows[i][col] : i \in 1..Len(df_full.rows)}

\* What a run of lines 207-302 computes.
render(rows, sy, st, sl, sf, fd, fr) ==
    LET df_full == enrich(rows)
        out == apply_filters(df_full, sy, st, sl, sf, fd, fr)
    IN  Some([df_full |-> df_full, raised |-> out.raised, df |-> out.rows])

\* The harvested rows the dashboard is run on.
DashRow(k) ==
    IF k = 1
    THEN [identifier |-> <<"1">>, date |-> <<"2", "0", "1", "7", "-", "0", "5">>, format |-> <<"P", "D", "F">>,
          type |-> <<"h", "t", "t", "p", ":", "x", ";", " ", "a", "r", "t">>, language |-> <<"e", "s", ";", "e", "n">>,
          description |-> <<"t">>, rights |-> <<"c", "c">>]
    ELSE IF k = 2
    THEN [identifier |-> <<"2">>]
    ELSE [identifier |-> <<"3">>, date |-> <<"x", " ", "1", "2", "0", "1", "7", "1">>,
          format |-> <<"P", "D", "F">>, type |-> <<"a", "r", "t">>,
          language |-> <<"e", "s">>,
          description |-> <<" ">>, rights |-> <<" ">>]

Samples == UNION {[1..n -> {DashRow(k) : k \in 1..3}] : n \in 1..MaxRows}

InitDash ==
    /\ oai_url = "u1"
    /\ repo_info = get_repo_info([raised |-> FALSE, baseURL |-> "u1",
                                  repositoryIdentifier |-> Some(<<"a">>)])
    /\ harvested_df \in {Some(rows) : rows \in Samples}
    /\ config_shown = TRUE
    /\ high_vol_mode = FALSE
    /\ security_check = <<>>
    /\ num_limit = NumberMin
    /\ safe_limit = DefaultLimit
    /\ reg_limit = DefaultLimit
    /\ cache = <<>>
    /\ msgs = {}
    /\ run = NoRun
    /\ FlatIdle
    /\ sel_years = available(enrich(harvested_df[1]), "year_extracted")
    /\ sel_types = available(enrich(harvested_df[1]), "primary_type")
    /\ sel_langs = available(enrich(harvested_df[1]), "primary_lang")
    /\ sel_formats = available(enrich(harvested_df[1]), "clean_format")
    /\ filter_empty_desc = FALSE
    /\ filter_no_rights = FALSE
    /\ view = render(harvested_df[1], sel_years, sel_types, sel_langs, sel_formats,
                     FALSE, FALSE)

\* A rerun of the script with the dashboard widgets set to these values.
DashRun(sy, st, sl, sf, fd, fr) ==
    /\ repo_info # None /\ harvested_df # None
    /\ sel_years' = sy /\ sel_types' = st /\ sel_langs' = sl /\ sel_formats' = sf
    /\ filter_empty_desc' = fd /\ filter_no_rights' = fr
    /\ view' = render(harvested_df[1], sy, st, sl, sf, fd, fr)
    /\ UNCHANGED <<uiVars, cache, msgs, run, flatVars>>

\* The options the last run gave a multiselect.
options(col) == available(view[1].df_full, col)

\* A click in a multiselect adds or removes one option.
toggle(sel, v) == IF v \in sel THEN sel \ {v} ELSE sel \cup {v}

SelectYears ==
    \E v \in options("year_extracted") :
      LET sel == toggle(sel_years, v) IN
        DashRun(sel, sel_types, sel_langs, sel_formats,
                filter_empty_desc, filter_no_rights)

SelectTypes ==
    \E v \in options("primary_type") :
      LET sel == toggle(sel_types, v) IN
        DashRun(sel_years, sel, sel_langs, sel_formats,
                filter_empty_desc, filter_no_rights)

SelectLangs ==
    \E v \in options("primary_lang") :
      LET sel == toggle(sel_langs, v) IN
        DashRun(sel_years, sel_types, sel, sel_formats,
                filter_empty_desc, filter_no_rights)

SelectFormats ==
    \E v \in options("clean_format") :
      LET sel == toggle(sel_formats, v) IN
        DashRun(sel_years, sel_types, sel_langs, sel,
                filter_empty_desc, filter_no_rights)

ToggleEmptyDesc ==
    DashRun(sel_years, sel_types, sel_langs, sel_formats,
            ~filter_empty_desc, filter_no_rights)

ToggleNoRights ==
    DashRun(sel_years, sel_types, sel_langs, sel_formats,
            filter_empty_desc, ~filter_no_rights)

NextDash ==
    \/ SelectYears
    \/ SelectTypes
    \/ SelectLangs
    \/ SelectFormats
    \/ ToggleEmptyDesc
    \/ ToggleNoRights

SpecDash == InitDash /\ [][NextDash]_vars

----------------------------------------------------------------------------
(* Claims *)

Threshold == 5000     \* "Habilitar Cosecha Masiva (> 5000)"

called == run.call # NoCall
call == run.call[1]

\* n spaces
Spaces(n) == [i \in 1..n |-> " "]

\* The identifier of the resolved identity, padded with spaces on either side.
PaddedIdentifier(text) ==
    /\ repo_info # None
    /\ repo_info[1].RepositoryID # None
    /\ \E i, j \in 0..Len(text) :
          text = Spaces(i) \o repo_info[1].RepositoryID[1] \o Spaces(j)

\* C1 as stated: harvest_dynamic is invoked with a limit above 5000 only if an
\* identity is resolved and the text entered equals its repositoryIdentifier
\* verbatim; the limit passed is always a positive integer.
C1_VerbatimIdentifier ==
    called =>
        /\ call.limit > 0
        /\ call.limit > Threshold =>
              /\ repo_info # None
              /\ repo_info[1].RepositoryID = Some(security_check)

\* C1 as amended: harvest_dynamic is invoked with a limit above 5000 only if an
\* identity is resolved and the text entered is its repositoryIdentifier with
\* nothing but whitespace before and after it (the comparison is case-sensitive
\* and strips the entered text); the limit passed is always a positive integer.
C1_StrippedIdentifier ==
    called =>
        /\ call.limit > 0
        /\ call.limit > Threshold => PaddedIdentifier(security_check)

\* C1: a harvest above the threshold was started.
C1_Witness == called /\ call.limit > Threshold

RowsOf(src, n) == [i \in 1..n |-> flatten(src.recs[i])]

\* C2 as stated: for a source that yields N records without failing,
\* harvest_dynamic(url, limit) returns exactly the first min(limit, N) records'
\* rows, in order, and reports no error.
C2_MinLimitN ==
    called /\ call.src.failAt = NoFail =>
        /\ call.df = RowsOf(call.src, Min(call.limit, Len(call.src.recs)))
        /\ ErrHarvest \notin call.msgs

\* C2 as amended: a call of harvest_dynamic(url, limit) whose body runs (no
\* result is cached for these arguments) on a source that yields N records
\* without failing returns exactly the first min(limit, N) records' rows, in
\* order, and reports no error; a call with arguments seen before returns the
\* result stored by the first call, whatever the source holds now.
C2_MinLimitNOnMiss ==
    called =>
        /\ ~call.hit /\ call.src.failAt = NoFail =>
              /\ call.df = RowsOf(call.src, Min(call.limit, Len(call.src.recs)))
              /\ ErrHarvest \notin call.msgs
        /\ <<call.url, call.limit>> \in DOMAIN cache
        /\ cache[<<call.url, call.limit>>] = [df |-> call.df, msgs |-> call.msgs]

\* C2: the limit ended a harvest whose source held more records.
C2_Witness ==
    /\ called /\ ~call.hit /\ call.src.failAt = NoFail
    /\ Len(call.src.recs) > call.limit
    /\ Len(call.df) = call.limit

\* The iterator raised during this call, after k records were consumed.
RaisedAfter(k) ==
    /\ called /\ ~call.hit
    /\ call.src.failAt = k /\ k # NoFail /\ k <= call.limit

\* C3: a harvest whose iterator raises after k >= 0 records returns no rows,
\* reports a diagnostic, and leaves the session's Sample as it was.
C3_AllOrNothing ==
    [][(\E k \in 0..MaxRecs : RaisedAfter(k))' =>
          /\ call'.df = <<>>
          /\ ErrHarvest \in msgs'
          /\ harvested_df' = harvested_df]_vars

\* C3: the iterator raised after one record had been consumed.
C3_Witness == RaisedAfter(1) /\ call.df = <<>>

Diagnostics == {ErrHarvest, ErrNoRecords, ErrConnect, WarnUrl}

\* C4: a run in which get_repo_info returned failure, or in which
\* harvest_dynamic failed, emits at least one error or warning.
C4_FailureSurfaced ==
    (run.identify = "failed" \/ (called /\ ErrHarvest \in call.msgs))
        => msgs \cap Diagnostics # {}

\* C5 as stated: after a harvest invocation the stored Sample is that
\* invocation's outcome, never one an earlier invocation produced.
C5_ReplacedWholesale ==
    called => (harvested_df = None \/ harvested_df = Some(call.df))

\* C5 as amended: an invocation that returns at least one row replaces the stored
\* Sample wholesale with its outcome; an invocation that fails or returns zero
\* records leaves the stored Sample (possibly an earlier invocation's) in place.
C5_ReplacedWhenNonEmpty ==
    [][called' =>
          IF call'.df # <<>> THEN harvested_df' = Some(call'.df)
          ELSE harvested_df' = harvested_df]_vars

\* C5: an invocation returned no rows while an earlier Sample was stored.
C5_Witness == called /\ call.df = <<>> /\ harvested_df # None

flattened == row # None
metadata_of == record[1].metadata
header_of == record[1].header

\* The non-null values of field f, in order.
NonNull(f) ==
    LET vs == metadata_get(metadata_of, f)
    IN  SelectSeq(vs, LAMBDA v : v # None)

\* C9: for every field name f the row holds key f if and only if the record has
\* at least one non-null value for f, and the cell is then those values joined
\* with "; ".
C9_FieldIffNonNull ==
    flattened =>
        \A f \in FieldNames :
            /\ f \in DOMAIN row[1] <=> NonNull(f) # <<>>
            /\ f \in DOMAIN row[1] =>
                  row[1][f] = join([i \in 1..Len(NonNull(f)) |-> NonNull(f)[i][1]])

\* C10: whatever fields the metadata carries, the row's identifier and datestamp
\* are the header's, and count_creators / count_subjects are the lengths of the
\* original creator / subject sequences.
C10_HeaderCells ==
    flattened =>
        /\ row[1]["identifier"] = header_of.identifier
        /\ row[1]["datestamp"] = header_of.datestamp
        /\ row[1]["count_creators"] = Len(metadata_get(metadata_of, "creator"))
        /\ row[1]["count_subjects"] = Len(metadata_get(metadata_of, "subject"))

shown == view # None
sample_rows == view[1].df_full.rows

\* Row r passes every facet: its selection is empty or holds r's value.
PassesFacets(r) ==
    /\ sel_years = {} \/ r["year_extracted"] \in sel_years
    /\ sel_types = {} \/ r["primary_type"] \in sel_types
    /\ sel_langs = {} \/ r["primary_lang"] \in sel_langs
    /\ sel_formats = {} \/ r["clean_format"] \in sel_formats

\* The rows of seq, in order, that satisfy Test.
Subsequence(seq, Test(_)) ==
    LET keep == {i \in 1..Len(seq) : Test(seq[i])}
        nth(k) == CHOOSE i \in keep : Cardinality({j \in keep : j <= i}) = k
    IN  [k \in 1..Cardinality(keep) |-> seq[nth(k)]]

\* C6: with both flags off the filtered view is exactly the subsequence of the
\* Sample's rows that pass every facet (an empty selection restricts nothing);
\* with all four selections empty it is the full Sample; and filtering the view
\* again with the same selections yields the same view.
C6_FacetSemantics ==
    shown /\ ~filter_empty_desc /\ ~filter_no_rights =>
        /\ ~view[1].raised
        /\ view[1].df = Subsequence(sample_rows, PassesFacets)
        /\ (sel_years = {} /\ sel_types = {} /\ sel_langs = {} /\ sel_formats = {})
              => view[1].df = sample_rows
        /\ apply_filters([columns |-> view[1].df_full.columns, rows |-> view[1].df],
                         sel_years, sel_types, sel_langs, sel_formats,
                         FALSE, FALSE).rows = view[1].df

\* C6: one facet is cleared, another keeps some rows and drops others.
C6_Witness ==
    /\ shown /\ ~filter_empty_desc /\ ~filter_no_rights
    /\ sel_years = {} /\ sel_types # {}
    /\ view[1].df # <<>>
    /\ Len(view[1].df) < Len(sample_rows)

\* The cell is absent from the row or holds nothing but whitespace.
MissingCell(r, col) ==
    col \notin DOMAIN r \/ \A i \in 1..Len(r[col]) : r[col][i] = " "

PassesFlags(r) ==
    /\ PassesFacets(r)
    /\ filter_empty_desc => MissingCell(r, "description")
    /\ filter_no_rights => MissingCell(r, "rights")

\* C7: with onlyMissingDescription (resp. onlyMissingRights) set, the view keeps
\* exactly the rows whose description (resp. rights) is absent or blank, for
\* every Sample, also one in which no record carried the field, and the filter
\* completes without error.
C7_MissingFilters ==
    shown /\ (filter_empty_desc \/ filter_no_rights) =>
        /\ ~view[1].raised
        /\ view[1].df = Subsequence(sample_rows, PassesFlags)

SourceOf(col) ==
    IF col = "year_extracted" THEN "date"
    ELSE IF col = "clean_format" THEN "format"
    ELSE IF col = "primary_type" THEN "type"
    ELSE "language"

\* C8: in a Sample that has the source column, a row whose source cell is absent
\* gets exactly the sentinel "[ SIN DATO ]" in each of the four enriched columns.
C8_AbsentGivesSentinel ==
    shown =>
        \A col \in EnrichedColumns, i \in 1..Len(harvested_df[1]) :
            (/\ SourceOf(col) \in Columns(harvested_df[1])
             /\ SourceOf(col) \notin DOMAIN harvested_df[1][i])
                => sample_rows[i][col] = SinDato

\* The URL whose Identify response the identity in session state was built
\* from (every remote answers with its own base URL).
resolved_from == repo_info[1].BaseURL

\* C11: whenever harvest_dynamic(url, limit) is invoked, the identity held in
\* session state (the one the confirmation gate compares against and the report
\* header shows) was resolved from that same url.
C11_IdentityOfHarvestedUrl ==
    called => (repo_info # None /\ resolved_from = call.url)

============================================================================
